---- MODULE Spec2Model ----
(***************************************************************************)
(* Model of lib/extension/availability.js: the Availability extension of   *)
(* zigbee2mqtt.  Every method of the class is an operator from a "store"   *)
(* (the fields of the object plus the calls made on its collaborators      *)
(* during the running handler) to a store; every action of the model is    *)
(* one run-to-completion piece of JavaScript: a handler up to its first    *)
(* await, or the continuation after an await.                              *)
(***************************************************************************)
EXTENDS Integers, Sequences, FiniteSets, TLC

\* ------------------------------------------------------------------------
\* Bounds of the model
\* ------------------------------------------------------------------------

\* pending device.ping() promises, all devices together
MaxProbes == 2

\* active timers that this.timers no longer references, all devices together
MaxLeaked == 1

\* the time at which a seen device was last seen (device.lastSeen), in ms
BaseTime == 1000

\* ------------------------------------------------------------------------
\* Program constants and the environment's value sets
\* ------------------------------------------------------------------------

Hours25 == 1000 * 60 * 60 * 25

\* ieeeAddr of the devices, in the order zigbee.getClients() lists them
Clients == <<"0x01", "0x02">>

Dev == {Clients[i] : i \in 1..Len(Clients)}

\* settings.getDevice(ieeeAddr).friendlyName
friendlyName(d) == IF d = "0x01" THEN "lamp" ELSE "lock"

\* zigbeeModel of the entries of pingableEndDevices
pingableEndDevices == {"E11-G13", "53170161"}

\* what a device reports about itself
DeviceKinds ==
    { [modelID |-> "E11-G13", type |-> "EndDevice", powerSource |-> "Battery",
       manufacturer |-> "Sengled"],
      [modelID |-> "bulb", type |-> "Router", powerSource |-> "Mains",
       manufacturer |-> "IKEA"],
      [modelID |-> "lock", type |-> "EndDevice", powerSource |-> "Battery",
       manufacturer |-> "Yale"] }

\* the kinds a device of the model can report: "0x01" is interviewed anew and
\* can report any of them, "0x02" is a battery lock and stays one
KindsOf(d) ==
    IF d = "0x01" THEN DeviceKinds ELSE {k \in DeviceKinds : k.modelID = "lock"}

\* the devices of the model that can leave the network
Leavers == {"0x01"}

\* what settings.getDevice(ieeeAddr) can return: each of the two settings of
\* a device that the extension reads is absent, true or false
DeviceSettings ==
    { [availability_ping_device_on_startup |-> "absent",
       availability_refresh_state_on_startup |-> "absent"],
      [availability_ping_device_on_startup |-> "true",
       availability_refresh_state_on_startup |-> "false"],
      [availability_ping_device_on_startup |-> "false",
       availability_refresh_state_on_startup |-> "true"],
      [availability_ping_device_on_startup |-> "true",
       availability_refresh_state_on_startup |-> "true"] }

NoSettings ==
    [availability_ping_device_on_startup |-> "absent",
     availability_refresh_state_on_startup |-> "absent"]

\* the settings the constructor can find, and with them whether the devices
\* have availability_allow_refresh_state set to false in their settings
Configs ==
    { [passlist |-> {}, blocklist |-> {}, refresh_state_on_startup |-> TRUE,
       availability_allow_refresh_state |-> FALSE],
      [passlist |-> {"0x01"}, blocklist |-> {"0x01"},
       refresh_state_on_startup |-> FALSE,
       availability_allow_refresh_state |-> FALSE],
      [passlist |-> {}, blocklist |-> {"lamp"},
       refresh_state_on_startup |-> TRUE,
       availability_allow_refresh_state |-> TRUE] }

\* device.lastSeen (0: never seen) and Date.now() as an interval tick finds them
TickInputs ==
    {<<0, BaseTime>>} \cup
    {<<BaseTime, BaseTime + ago>> : ago \in {1, Hours25, Hours25 + 1}}

EventTypes == {"message", "deviceAnnounce"}

VARIABLES
    state,      \* this.state: ieeeAddr -> boolean, a partial map
    timers,     \* this.timers: ieeeAddr -> timer handle, a partial map
    leaked,     \* active timers no entry of this.timers references, per device
    probes,     \* pending device.ping() promises, per device and caller
    passlist,   \* this.passlist
    blocklist,  \* this.blocklist
    refresh_state_on_startup,   \* this.refresh_state_on_startup
    availability_allow_refresh_state,   \* FALSE: the devices' settings forbid refreshState
    meta,       \* the devices' modelID, type and powerSource
    known,      \* zigbee.resolveEntity(ieeeAddr) finds the device
    stopped,    \* stop() has run
    connected,  \* connectDevice has been called for the device
    published,  \* the mqtt.publish calls of the last step
    refreshed,  \* the refreshState calls of the last step
    calls,      \* the publishAvailability calls of the last step
    refreshing, \* the devices with reads of a refreshState call pending
    retained,   \* the retained availability message the broker holds, by device
    lastOp      \* the last step taken and its inputs

vars == <<state, timers, leaked, probes, passlist, blocklist,
          refresh_state_on_startup, availability_allow_refresh_state, meta,
          known, stopped, connected,
          published, refreshed, calls, refreshing, retained, lastOp>>

\* ------------------------------------------------------------------------
\* JavaScript objects: {} with own properties is a partial map
\* ------------------------------------------------------------------------

EmptyMap == [x \in {} |-> TRUE]

\* obj[k] = v
Put(f, k, v) == [x \in DOMAIN f \cup {k} |-> IF x = k THEN v ELSE f[x]]

\* obj.hasOwnProperty(k)
hasOwnProperty(f, k) == k \in DOMAIN f

\* ------------------------------------------------------------------------
\* The store the methods work on
\* ------------------------------------------------------------------------

\* the object's fields as a handler finds them; it has called nothing yet
Cur == [state |-> state, timers |-> timers, leaked |-> leaked, probes |-> probes,
        published |-> <<>>, refreshed |-> <<>>, calls |-> <<>>]

\* the model's bounds on what a step may leave behind
RECURSIVE Total(_, _, _)
Total(f, k1, k2) ==
    IF DOMAIN f = {}
    THEN 0
    ELSE LET d == CHOOSE x \in DOMAIN f : TRUE
         IN  f[d][k1] + f[d][k2] + Total([x \in DOMAIN f \ {d} |-> f[x]], k1, k2)

Bounded(s) ==
    /\ Total(s.probes, "timer", "startup") <= MaxProbes
    /\ Total(s.leaked, "timeout", "interval") <= MaxLeaked

\* ------------------------------------------------------------------------
\* Policy resolver and capability classifier
\* ------------------------------------------------------------------------

\* mutant of inPasslistOrNotInBlocklist: the blocklist is asked also when the
\* passlist is not empty
inPasslistAndNotInBlocklist(d) ==
    LET name == friendlyName(d)
    IN  IF d \in blocklist \/ (name # "" /\ name \in blocklist)
        THEN FALSE
        ELSE IF Cardinality(passlist) > 0
             THEN d \in passlist \/ (name # "" /\ name \in passlist)
             ELSE TRUE

inPasslistOrNotInBlocklist(d) ==
    LET name == friendlyName(d)
    IN  IF Cardinality(passlist) > 0
        THEN d \in passlist \/ (name # "" /\ name \in passlist)
        ELSE IF d \in blocklist \/ (name # "" /\ name \in blocklist)
             THEN FALSE
             ELSE TRUE

isPingable(d) ==
    IF meta[d].modelID \in pingableEndDevices
    THEN TRUE
    ELSE meta[d].type = "Router" /\ meta[d].powerSource # "Battery"

\* utils.isIkeaTradfriDevice(device)
isIkeaTradfriDevice(d) == meta[d].manufacturer = "IKEA"

\* deviceSettings: what settings.getDevice(device.ieeeAddr) returns
getSettingForDevice(initialValue, setting, deviceSettings) ==
    IF deviceSettings[setting] # "absent"
    THEN deviceSettings[setting] = "true"
    ELSE initialValue

\* mutant of isPingOnStartupEnabledForDevice: the setting of the device cannot
\* make a device pinged that is not pingable
isPingOnStartupEnabledForPingableDevice(d, deviceSettings) ==
    isPingable(d) /\ getSettingForDevice(TRUE, "availability_ping_device_on_startup",
                                         deviceSettings)

isPingOnStartupEnabledForDevice(d, deviceSettings) ==
    getSettingForDevice(isPingable(d), "availability_ping_device_on_startup",
                        deviceSettings)

isRefreshOnStartupEnabledForDevice(d, deviceSettings) ==
    getSettingForDevice(refresh_state_on_startup /\ isPingable(d),
                        "availability_refresh_state_on_startup", deviceSettings)

\* ------------------------------------------------------------------------
\* State and publication manager
\* ------------------------------------------------------------------------

Payload(available) == IF available THEN "online" ELSE "offline"

\* mutant of StateDiffers: an endpoint without recorded state counts as offline
StateDiffersUnsetIsOffline(st, d, available) ==
    IF hasOwnProperty(st, d) THEN st[d] # available ELSE available

\* this.state[ieeeAddr] !== available: undefined differs from both booleans
StateDiffers(st, d, available) ==
    IF hasOwnProperty(st, d) THEN st[d] # available ELSE TRUE

\* mutant of publishAvailability: the refresh on reconnect does not ask
\* whether the endpoint was recorded offline
publishAvailabilityRefreshOnline(s, d, available, force, deviceSettings) ==
    LET shouldPublishAvailability == StateDiffers(s.state, d, available) \/ force
        shouldRefreshDueToStartup ==
            /\ available
            /\ ~hasOwnProperty(s.state, d)
            /\ isRefreshOnStartupEnabledForDevice(d, deviceSettings)
        shouldRefreshDueToReconnect == available /\ hasOwnProperty(s.state, d)
    IN  [s EXCEPT
            !.state = Put(s.state, d, available),
            !.refreshed =
                IF shouldRefreshDueToStartup \/ shouldRefreshDueToReconnect
                THEN Append(@, [dev |-> d, site |-> "publishAvailability"])
                ELSE @,
            !.published =
                IF shouldPublishAvailability
                THEN Append(@, [dev |-> d, payload |-> Payload(available),
                                force |-> force])
                ELSE @,
            !.calls = Append(@, [dev |-> d, available |-> available,
                                 force |-> force])]

\* mutant of publishAvailability: a call that refreshes leaves the writing of
\* the state to the end of the refresh
publishAvailabilityWriteAfterRefresh(s, d, available, force, deviceSettings) ==
    LET shouldPublishAvailability == StateDiffers(s.state, d, available) \/ force
        shouldRefreshDueToStartup ==
            /\ available
            /\ ~hasOwnProperty(s.state, d)
            /\ isRefreshOnStartupEnabledForDevice(d, deviceSettings)
        shouldRefreshDueToReconnect ==
            /\ available
            /\ hasOwnProperty(s.state, d)
            /\ ~s.state[d]
    IN  [s EXCEPT
            !.state =
                IF shouldRefreshDueToStartup \/ shouldRefreshDueToReconnect
                THEN @
                ELSE Put(s.state, d, available),
            !.refreshed =
                IF shouldRefreshDueToStartup \/ shouldRefreshDueToReconnect
                THEN Append(@, [dev |-> d, site |-> "publishAvailability"])
                ELSE @,
            !.published =
                IF shouldPublishAvailability
                THEN Append(@, [dev |-> d, payload |-> Payload(available),
                                force |-> force])
                ELSE @,
            !.calls = Append(@, [dev |-> d, available |-> available,
                                 force |-> force])]

\* mutant of publishAvailability: an endpoint recorded online goes offline
\* without a publication
publishAvailabilitySilentOffline(s, d, available, force, deviceSettings) ==
    LET shouldPublishAvailability ==
            (StateDiffers(s.state, d, available) /\ available) \/ force
        shouldRefreshDueToStartup ==
            /\ available
            /\ ~hasOwnProperty(s.state, d)
            /\ isRefreshOnStartupEnabledForDevice(d, deviceSettings)
        shouldRefreshDueToReconnect ==
            /\ available
            /\ hasOwnProperty(s.state, d)
            /\ ~s.state[d]
    IN  [s EXCEPT
            !.state = Put(s.state, d, available),
            !.refreshed =
                IF shouldRefreshDueToStartup \/ shouldRefreshDueToReconnect
                THEN Append(@, [dev |-> d, site |-> "publishAvailability"])
                ELSE @,
            !.published =
                IF shouldPublishAvailability
                THEN Append(@, [dev |-> d, payload |-> Payload(available),
                                force |-> force])
                ELSE @,
            !.calls = Append(@, [dev |-> d, available |-> available,
                                 force |-> force])]

\* deviceSettings: what settings.getDevice(ieeeAddr) returns during the call
publishAvailability(s, d, available, force, deviceSettings) ==
    LET shouldPublishAvailability == StateDiffers(s.state, d, available) \/ force
        shouldRefreshDueToStartup ==
            /\ available
            /\ ~hasOwnProperty(s.state, d)
            /\ isRefreshOnStartupEnabledForDevice(d, deviceSettings)
        shouldRefreshDueToReconnect ==
            /\ available
            /\ hasOwnProperty(s.state, d)
            /\ ~s.state[d]
    IN  [s EXCEPT
            !.state = Put(s.state, d, available),
            !.refreshed =
                IF shouldRefreshDueToStartup \/ shouldRefreshDueToReconnect
                THEN Append(@, [dev |-> d, site |-> "publishAvailability"])
                ELSE @,
            !.published =
                IF shouldPublishAvailability
                THEN Append(@, [dev |-> d, payload |-> Payload(available),
                                force |-> force])
                ELSE @,
            !.calls = Append(@, [dev |-> d, available |-> available,
                                 force |-> force])]

\* ------------------------------------------------------------------------
\* Liveness scheduler
\* ------------------------------------------------------------------------

\* clearTimeout(handle); Node cancels an interval handle the same way
clearTimeout(handle) == [handle EXCEPT !.active = FALSE]

\* this.timers[d] = setTimeout(...) or setInterval(...): the handle the entry
\* held is dropped, and a timer it still names as active goes on running
SetTimer(s, d, kind) ==
    LET dropped == hasOwnProperty(s.timers, d) /\ s.timers[d].active
        s1 == IF dropped
              THEN [s EXCEPT !.leaked[d][s.timers[d].kind] = @ + 1]
              ELSE s
    IN  [s1 EXCEPT !.timers = Put(s.timers, d, [kind |-> kind, active |-> TRUE])]

setTimerPingable(s, d) ==
    LET s1 == IF hasOwnProperty(s.timers, d)
              THEN [s EXCEPT !.timers[d] = clearTimeout(@)]
              ELSE s
    IN  SetTimer(s1, d, "timeout")

\* handleIntervalPingable up to its await of device.ping()
handleIntervalPingable(s, d, caller) ==
    IF ~known[d]
    THEN s
    ELSE [s EXCEPT !.probes[d][caller] = @ + 1]

\* mutant of handleIntervalPingableSettled: a failed ping ends the probing
handleIntervalPingableSettledStopOnFailure(s, d, ok, queue, deviceSettings) ==
    LET s1 == publishAvailability(s, d, ok, FALSE, deviceSettings)
    IN  IF queue /\ ok THEN setTimerPingable(s1, d) ELSE s1

\* handleIntervalPingable from the settling of device.ping() on
handleIntervalPingableSettled(s, d, ok, queue, deviceSettings) ==
    LET s1 == publishAvailability(s, d, ok, FALSE, deviceSettings)
    IN  IF queue THEN setTimerPingable(s1, d) ELSE s1

\* mutant of handleIntervalNotPingable: 25 hours ago is too long ago already
handleIntervalNotPingableAtThreshold(s, d, lastSeen, now) ==
    IF ~known[d] \/ lastSeen = 0
    THEN s
    ELSE LET ago == now - lastSeen
         IN  IF ago >= Hours25
             THEN publishAvailability(s, d, FALSE, FALSE, NoSettings)
             ELSE s

\* mutant of handleIntervalNotPingable: an endpoint seen in the last 25 hours
\* is marked online
handleIntervalNotPingableMarksOnline(s, d, lastSeen, now) ==
    IF ~known[d] \/ lastSeen = 0
    THEN s
    ELSE LET ago == now - lastSeen
         IN  publishAvailability(s, d, ~(ago > Hours25), FALSE, NoSettings)

\* lastSeen: device.lastSeen, 0 when the device was never seen; now: Date.now()
handleIntervalNotPingable(s, d, lastSeen, now) ==
    IF ~known[d] \/ lastSeen = 0
    THEN s
    ELSE LET ago == now - lastSeen
         IN  IF ago > Hours25
             THEN publishAvailability(s, d, FALSE, FALSE, NoSettings)
             ELSE s

\* mutant of connectDeviceAfterPing: the publication is not forced
connectDeviceAfterPingUnforced(s, d, deviceSettings) ==
    LET s1 == publishAvailability(s, d,
                  IF hasOwnProperty(s.state, d) THEN s.state[d] ELSE TRUE,
                  FALSE, deviceSettings)
    IN  IF inPasslistOrNotInBlocklist(d)
        THEN IF isPingable(d)
             THEN setTimerPingable(s1, d)
             ELSE SetTimer(s1, d, "interval")
        ELSE s1

\* mutant of connectDeviceAfterPing: the timer is armed without asking the lists
connectDeviceAfterPingAnyDevice(s, d, deviceSettings) ==
    LET s1 == publishAvailability(s, d,
                  IF hasOwnProperty(s.state, d) THEN s.state[d] ELSE TRUE,
                  TRUE, deviceSettings)
    IN  IF isPingable(d)
        THEN setTimerPingable(s1, d)
        ELSE SetTimer(s1, d, "interval")

\* connectDevice from its forced publication on
connectDeviceAfterPing(s, d, deviceSettings) ==
    LET s1 == publishAvailability(s, d,
                  IF hasOwnProperty(s.state, d) THEN s.state[d] ELSE TRUE,
                  TRUE, deviceSettings)
    IN  IF inPasslistOrNotInBlocklist(d)
        THEN IF isPingable(d)
             THEN setTimerPingable(s1, d)
             ELSE SetTimer(s1, d, "interval")
        ELSE s1

\* connectDevice up to the await of its startup ping, or to its end
connectDevice(s, d, deviceSettings) ==
    IF isPingOnStartupEnabledForDevice(d, deviceSettings) /\ known[d]
    THEN handleIntervalPingable(s, d, "startup")
    ELSE connectDeviceAfterPing(s, d, deviceSettings)

\* zigbee.getClients()
getClients == SelectSeq(Clients, LAMBDA d : known[d])

\* getDevice: the settings store, ieeeAddr -> settings of the device
RECURSIVE onMQTTConnected(_, _, _)
onMQTTConnected(s, devices, getDevice) ==
    IF devices = <<>>
    THEN s
    ELSE onMQTTConnected(
             connectDevice(s, Head(devices), getDevice[Head(devices)]),
             Tail(devices), getDevice)

\* mutant of publishOffline: the publication is forced
RECURSIVE publishOfflineForced(_, _)
publishOfflineForced(s, devices) ==
    IF devices = <<>>
    THEN s
    ELSE publishOfflineForced(
             publishAvailability(s, Head(devices), FALSE, TRUE, NoSettings),
             Tail(devices))

RECURSIVE publishOffline(_, _)
publishOffline(s, devices) ==
    IF devices = <<>>
    THEN s
    ELSE publishOffline(
             publishAvailability(s, Head(devices), FALSE, FALSE, NoSettings),
             Tail(devices))

stop(s) ==
    LET s1 == [s EXCEPT !.timers =
                  [d \in DOMAIN s.timers |-> clearTimeout(s.timers[d])]]
    IN  publishOffline(s1, getClients)

\* mutant of onZigbeeEvent: the event of a device is handled without asking the lists
onZigbeeEventAnyDevice(s, type, d, deviceSettings) ==
    LET s1 == publishAvailability(s, d, TRUE, FALSE, deviceSettings)
    IN  IF isPingable(d) /\ inPasslistOrNotInBlocklist(d)
        THEN setTimerPingable(s1, d)
        ELSE s1

\* mutant of onZigbeeEvent: a deviceAnnounce refreshes the state of a device
\* the lists exclude
onZigbeeEventAnnounceAnyDevice(s, type, d, deviceSettings) ==
    IF inPasslistOrNotInBlocklist(d)
    THEN LET s1 == publishAvailability(s, d, TRUE, FALSE, deviceSettings)
         IN  IF isPingable(d)
             THEN LET s2 == setTimerPingable(s1, d)
                      online == hasOwnProperty(s2.state, d) /\ s2.state[d]
                  IN  IF online /\ type = "deviceAnnounce" /\ ~isIkeaTradfriDevice(d)
                      THEN [s2 EXCEPT !.refreshed =
                               Append(@, [dev |-> d, site |-> "onZigbeeEvent"])]
                      ELSE s2
             ELSE s1
    ELSE IF type = "deviceAnnounce"
         THEN [s EXCEPT !.refreshed = Append(@, [dev |-> d, site |-> "onZigbeeEvent"])]
         ELSE s

onZigbeeEvent(s, type, d, deviceSettings) ==
    IF inPasslistOrNotInBlocklist(d)
    THEN LET s1 == publishAvailability(s, d, TRUE, FALSE, deviceSettings)
         IN  IF isPingable(d)
             THEN LET s2 == setTimerPingable(s1, d)
                      online == hasOwnProperty(s2.state, d) /\ s2.state[d]
                  IN  IF online /\ type = "deviceAnnounce" /\ ~isIkeaTradfriDevice(d)
                      THEN [s2 EXCEPT !.refreshed =
                               Append(@, [dev |-> d, site |-> "onZigbeeEvent"])]
                      ELSE s2
             ELSE s1
    ELSE s

\* ------------------------------------------------------------------------
\* Initial state: the constructor has run
\* ------------------------------------------------------------------------

NoDev == "-"

\* the record of a step; getDevice: the device settings onMQTTConnected found
Op(op, d, arg, now) ==
    [op |-> op, dev |-> d, arg |-> arg, now |-> now,
     getDevice |-> [x \in Dev |-> NoSettings]]

Init ==
    /\ state = EmptyMap
    /\ timers = EmptyMap
    /\ leaked = [d \in Dev |-> [timeout |-> 0, interval |-> 0]]
    /\ probes = [d \in Dev |-> [timer |-> 0, startup |-> 0]]
    /\ \E c \in Configs :
          /\ passlist = c.passlist
          /\ blocklist = c.blocklist
          /\ refresh_state_on_startup = c.refresh_state_on_startup
          /\ availability_allow_refresh_state = c.availability_allow_refresh_state
    /\ meta \in [Dev -> DeviceKinds]
    /\ \A d \in Dev : meta[d] \in KindsOf(d)
    /\ known = [d \in Dev |-> TRUE]
    /\ stopped = FALSE
    /\ connected = {}
    /\ published = <<>>
    /\ refreshed = <<>>
    /\ calls = <<>>
    /\ refreshing = {}
    /\ retained = EmptyMap
    /\ lastOp = Op("constructor", NoDev, 0, 0)

\* ------------------------------------------------------------------------
\* Steps
\* ------------------------------------------------------------------------

\* the retained messages after the publications of log, in their order
RECURSIVE Retain(_, _)
Retain(held, log) ==
    IF log = <<>>
    THEN held
    ELSE Retain(Put(held, Head(log).dev, Head(log).payload), Tail(log))

\* the handler leaves the store s behind; each of its refreshState calls
\* either returns early (no device, no definition, no converter, or the
\* settings forbid it) or leaves reads pending
Commit(s) ==
    /\ Bounded(s)
    /\ state' = s.state
    /\ timers' = s.timers
    /\ leaked' = s.leaked
    /\ probes' = s.probes
    /\ published' = s.published
    /\ refreshed' = s.refreshed
    /\ calls' = s.calls
    /\ retained' = Retain(retained, s.published)
    /\ \E reads \in SUBSET {s.refreshed[i].dev : i \in DOMAIN s.refreshed} :
          /\ \A d \in reads : known[d] /\ availability_allow_refresh_state
          /\ refreshing' = refreshing \cup reads

\* a step of the environment: the extension runs no code
NoCode ==
    /\ published' = <<>>
    /\ refreshed' = <<>>
    /\ calls' = <<>>
    /\ UNCHANGED <<state, timers, leaked, probes, retained>>

\* onMQTTConnected runs and finds the device settings getDevice
MQTTConnectedWith(getDevice) ==
    /\ ~stopped
    /\ Commit(onMQTTConnected(Cur, getClients, getDevice))
    /\ connected' = connected \cup {d \in Dev : known[d]}
    /\ UNCHANGED <<passlist, blocklist, refresh_state_on_startup,
                   availability_allow_refresh_state, meta, known, stopped>>

\* the controller calls onMQTTConnected: at start, and on every reconnect
MQTTConnected ==
    /\ \E getDevice \in [Dev -> DeviceSettings] : MQTTConnectedWith(getDevice)
    /\ lastOp' = Op("onMQTTConnected", NoDev, 0, 0)

\* the startup ping of connectDevice(d) settles and connectDevice runs to its end
\* (the rest of handleIntervalPingable and of connectDevice are microtasks that
\* no timer and no event can come between)
StartupPingSettles(d) ==
    /\ probes[d].startup > 0
    /\ \E ok \in BOOLEAN, deviceSettings \in DeviceSettings :
          LET s0 == [Cur EXCEPT !.probes[d].startup = @ - 1]
              s1 == handleIntervalPingableSettled(s0, d, ok, FALSE, deviceSettings)
          IN  /\ Commit(connectDeviceAfterPing(s1, d, deviceSettings))
              /\ lastOp' = Op("connectDevice", d, IF ok THEN 1 ELSE 0, 0)
    /\ UNCHANGED <<passlist, blocklist, refresh_state_on_startup,
                   availability_allow_refresh_state, meta, known, stopped, connected>>

\* the timeout this.timers[d] holds, or one it no longer holds, expires
TimeoutExpires(d) ==
    /\ \/ /\ hasOwnProperty(timers, d)
          /\ timers[d].kind = "timeout"
          /\ timers[d].active
          /\ Commit(handleIntervalPingable(
                 [Cur EXCEPT !.timers[d].active = FALSE], d, "timer"))
       \/ /\ leaked[d].timeout > 0
          /\ Commit(handleIntervalPingable(
                 [Cur EXCEPT !.leaked[d].timeout = @ - 1], d, "timer"))
    /\ lastOp' = Op("timeout", d, 0, 0)
    /\ UNCHANGED <<passlist, blocklist, refresh_state_on_startup,
                   availability_allow_refresh_state, meta, known, stopped, connected>>

\* the ping of a timer-triggered handleIntervalPingable(d) settles
PingSettles(d) ==
    /\ probes[d].timer > 0
    /\ \E ok \in BOOLEAN, deviceSettings \in DeviceSettings :
          /\ Commit(handleIntervalPingableSettled(
                 [Cur EXCEPT !.probes[d].timer = @ - 1], d, ok, TRUE, deviceSettings))
          /\ lastOp' = Op("handleIntervalPingable", d, IF ok THEN 1 ELSE 0, 0)
    /\ UNCHANGED <<passlist, blocklist, refresh_state_on_startup,
                   availability_allow_refresh_state, meta, known, stopped, connected>>

\* an interval of d ticks: the one this.timers[d] holds, or one it no longer holds
IntervalTicks(d) ==
    /\ \/ /\ hasOwnProperty(timers, d)
          /\ timers[d].kind = "interval"
          /\ timers[d].active
       \/ leaked[d].interval > 0
    /\ \E in \in TickInputs :
          /\ Commit(handleIntervalNotPingable(Cur, d, in[1], in[2]))
          /\ lastOp' = Op("handleIntervalNotPingable", d, in[1], in[2])
    /\ UNCHANGED <<passlist, blocklist, refresh_state_on_startup,
                   availability_allow_refresh_state, meta, known, stopped, connected>>

\* the controller passes on a zigbee event of a device of the network
ZigbeeEvent(d) ==
    /\ ~stopped
    /\ known[d]
    /\ \E type \in EventTypes, deviceSettings \in DeviceSettings :
          /\ Commit(onZigbeeEvent(Cur, type, d, deviceSettings))
          /\ lastOp' = Op("onZigbeeEvent", d, IF type = "deviceAnnounce" THEN 1 ELSE 0, 0)
    /\ UNCHANGED <<passlist, blocklist, refresh_state_on_startup,
                   availability_allow_refresh_state, meta, known, stopped, connected>>

\* the controller stops the extension
Stop ==
    /\ ~stopped
    /\ Commit(stop(Cur))
    /\ stopped' = TRUE
    /\ lastOp' = Op("stop", NoDev, 0, 0)
    /\ UNCHANGED <<passlist, blocklist, refresh_state_on_startup,
                   availability_allow_refresh_state, meta, known, connected>>

\* d reports other model data after an interview or a re-join
DeviceChanges(d) ==
    /\ known[d]
    /\ \E k \in KindsOf(d) \ {meta[d]} : meta' = [meta EXCEPT ![d] = k]
    /\ NoCode
    /\ lastOp' = Op("interview", d, 0, 0)
    /\ UNCHANGED <<passlist, blocklist, refresh_state_on_startup,
                   availability_allow_refresh_state, known, stopped,
                   connected, refreshing>>

\* d leaves the network: zigbee.resolveEntity no longer finds it
DeviceLeaves(d) ==
    /\ d \in Leavers
    /\ known[d]
    /\ known' = [known EXCEPT ![d] = FALSE]
    /\ NoCode
    /\ lastOp' = Op("leave", d, 0, 0)
    /\ UNCHANGED <<passlist, blocklist, refresh_state_on_startup,
                   availability_allow_refresh_state, meta, stopped,
                   connected, refreshing>>

\* mutant of RefreshSettles: a failed read records the endpoint offline
RefreshSettlesMarksOffline(d) ==
    /\ d \in refreshing
    /\ refreshing' = refreshing \ {d}
    /\ \E ok \in BOOLEAN :
          /\ lastOp' = Op("refreshState", d, IF ok THEN 1 ELSE 0, 0)
          /\ state' = IF ok THEN state ELSE Put(state, d, FALSE)
    /\ published' = <<>>
    /\ refreshed' = <<>>
    /\ calls' = <<>>
    /\ UNCHANGED <<timers, leaked, probes, retained>>
    /\ UNCHANGED <<passlist, blocklist, refresh_state_on_startup,
                   availability_allow_refresh_state, meta, known,
                   stopped, connected>>

\* the reads of the refreshState calls of d end: all answered (ok), or one
\* failed and the catch has logged it; refreshState touches no field
RefreshSettles(d) ==
    /\ d \in refreshing
    /\ refreshing' = refreshing \ {d}
    /\ NoCode
    /\ \E ok \in BOOLEAN : lastOp' = Op("refreshState", d, IF ok THEN 1 ELSE 0, 0)
    /\ UNCHANGED <<passlist, blocklist, refresh_state_on_startup,
                   availability_allow_refresh_state, meta, known,
                   stopped, connected>>

Next ==
    \/ MQTTConnected
    \/ Stop
    \/ \E d \in Dev : StartupPingSettles(d)
    \/ \E d \in Dev : TimeoutExpires(d)
    \/ \E d \in Dev : PingSettles(d)
    \/ \E d \in Dev : IntervalTicks(d)
    \/ \E d \in Dev : ZigbeeEvent(d)
    \/ \E d \in Dev : DeviceChanges(d)
    \/ \E d \in Dev : DeviceLeaves(d)
    \/ \E d \in Dev : RefreshSettles(d)

Spec == Init /\ [][Next]_vars

\* ------------------------------------------------------------------------
\* The policy resolver on its own: every pair of lists, every device
\* ------------------------------------------------------------------------

\* what a list can hold after the constructor's settings.getEntity(e).ID: the
\* address of a device, the ID of a group, or a string that is also a name
ListEntries == Dev \cup {friendlyName(d) : d \in Dev} \cup {"1"}

InitPolicy ==
    /\ state = EmptyMap
    /\ timers = EmptyMap
    /\ leaked = [d \in Dev |-> [timeout |-> 0, interval |-> 0]]
    /\ probes = [d \in Dev |-> [timer |-> 0, startup |-> 0]]
    /\ passlist \in SUBSET ListEntries
    /\ blocklist \in SUBSET ListEntries
    /\ refresh_state_on_startup = TRUE
    /\ availability_allow_refresh_state = TRUE
    /\ meta \in [Dev -> DeviceKinds]
    /\ \A d \in Dev : meta[d].modelID = "lock"
    /\ known = [d \in Dev |-> TRUE]
    /\ stopped = FALSE
    /\ connected = {}
    /\ published = <<>>
    /\ refreshed = <<>>
    /\ calls = <<>>
    /\ refreshing = {}
    /\ retained = EmptyMap
    /\ lastOp = Op("constructor", NoDev, 0, 0)

\* inPasslistOrNotInBlocklist(device) is called and returns
PolicyAsked(d) ==
    /\ lastOp' = Op("inPasslistOrNotInBlocklist", d,
                    IF inPasslistOrNotInBlocklist(d) THEN 1 ELSE 0, 0)
    /\ NoCode
    /\ UNCHANGED <<passlist, blocklist, refresh_state_on_startup,
                   availability_allow_refresh_state, meta, known,
                   stopped, connected, refreshing>>

NextPolicy == \E d \in Dev : PolicyAsked(d)

SpecPolicy == InitPolicy /\ [][NextPolicy]_vars

\* ------------------------------------------------------------------------
\* Connecting on its own, with the device settings it found on record
\* ------------------------------------------------------------------------

\* onMQTTConnected as in MQTTConnected; the step records the device settings
ConnectedWithSettings ==
    \E getDevice \in [Dev -> DeviceSettings] :
        /\ MQTTConnectedWith(getDevice)
        /\ lastOp' = [Op("onMQTTConnected", NoDev, 0, 0)
                         EXCEPT !.getDevice = getDevice]

NextConnect ==
    \/ ConnectedWithSettings
    \/ \E d \in Dev : StartupPingSettles(d)
    \/ \E d \in Dev : DeviceChanges(d)
    \/ \E d \in Dev : DeviceLeaves(d)

SpecConnect == Init /\ [][NextConnect]_vars

\* ------------------------------------------------------------------------
\* Vocabulary of the claims
\* ------------------------------------------------------------------------

\* the timers of d that can still fire, given this.timers and the timers it
\* no longer references
ActiveTimersIn(tm, lk, d) ==
    (IF hasOwnProperty(tm, d) /\ tm[d].active THEN 1 ELSE 0)
        + lk[d].timeout + lk[d].interval

ActiveTimers(d) == ActiveTimersIn(timers, leaked, d)

\* the pings of d that have not settled
PendingProbes(d) == probes[d].timer + probes[d].startup

\* the recorded state of d in the map st, as a word
Recorded(st, d) == IF hasOwnProperty(st, d) THEN Payload(st[d]) ELSE "unset"

\* the entries of the log for device d
Of(log, d) == SelectSeq(log, LAMBDA e : e.dev = d)

\* C1: in every reachable state each endpoint has at most one active timer
\* (timeout or interval).
C1_AtMostOneTimer == \A d \in Dev : ActiveTimers(d) <= 1

\* What setAvailability is to publish for the calls cs made one after the
\* other from the recorded states st: a call publishes its value when it is
\* forced or its value differs from the state recorded when it is made.
RECURSIVE ExpectedPublications(_, _)
ExpectedPublications(st, cs) ==
    IF cs = <<>>
    THEN <<>>
    ELSE LET c == Head(cs)
             emit == c.force \/ Recorded(st, c.dev) # Payload(c.available)
             pub == [dev |-> c.dev, payload |-> Payload(c.available),
                     force |-> c.force]
         IN  (IF emit THEN <<pub>> ELSE <<>>)
                 \o ExpectedPublications(Put(st, c.dev, c.available), Tail(cs))

\* the recorded states after the calls cs
RECURSIVE RecordedAfter(_, _)
RecordedAfter(st, cs) ==
    IF cs = <<>>
    THEN st
    ELSE RecordedAfter(Put(st, Head(cs).dev, Head(cs).available), Tail(cs))

\* C2: every step publishes exactly for those of its setAvailability calls
\* that are forced or whose value differs from the state recorded at call
\* time (unset differs from both values), with the new value as payload; a
\* non-forced call that repeats the recorded value publishes nothing; and the
\* step leaves the value of the last call recorded.
C2_PublishOnChange ==
    [][/\ published' = ExpectedPublications(state, calls')
       /\ state' = RecordedAfter(state, calls')]_vars

\* a failed timer probe of an endpoint already recorded offline, or a
\* successful one of an endpoint recorded online, has published nothing
C2_Witness ==
    /\ lastOp.op = "handleIntervalPingable"
    /\ Len(calls) = 1
    /\ ~calls[1].force
    /\ published = <<>>

\* the forced publications of the log
Forced(log) == SelectSeq(log, LAMBDA e : e.force)

\* C3: every connectDevice(d) emits exactly one forced publication, whether
\* or not d is tracked and whatever is recorded for d: at once when it makes
\* no startup probe, with the recorded state as payload, 'online' when
\* nothing is recorded; else when the startup probe settles, with the state
\* the probe result has just recorded.  No other step publishes with force.
C3_ForcedOncePerConnect ==
    [][/\ lastOp'.op = "onMQTTConnected" =>
            \A d \in Dev :
                IF known[d] /\ probes'[d].startup = probes[d].startup
                THEN Of(published', d) =
                        << [dev |-> d,
                            payload |-> IF Recorded(state, d) = "unset"
                                        THEN "online"
                                        ELSE Recorded(state, d),
                            force |-> TRUE] >>
                ELSE Of(published', d) = <<>>
       /\ lastOp'.op = "connectDevice" =>
            /\ probes'[lastOp'.dev].startup = probes[lastOp'.dev].startup - 1
            /\ Forced(published') =
                   << [dev |-> lastOp'.dev, payload |-> Payload(lastOp'.arg = 1),
                       force |-> TRUE] >>
            /\ published'[Len(published')].force
       /\ lastOp'.op \notin {"onMQTTConnected", "connectDevice"} =>
            Forced(published') = <<>>]_vars

\* an onMQTTConnected has force-published 'offline': the state recorded
\* before it, which the publication leaves as it was
C3_Witness ==
    /\ lastOp.op = "onMQTTConnected"
    /\ \E i \in 1..Len(published) :
          published[i].force /\ published[i].payload = "offline"

\* C4, as claimed: no step publishes for an endpoint that is not tracked.
C4_UntrackedNeverPublished ==
    \A i \in 1..Len(published) : inPasslistOrNotInBlocklist(published[i].dev)

\* C4, amended: a publication for an endpoint that is not tracked comes from
\* connectDevice (its forced publication, or the result of its startup probe)
\* or from stop(); no traffic event and no timer publishes for it.
C4_UntrackedPublishedByConnectOrStop ==
    \A i \in 1..Len(published) :
        ~inPasslistOrNotInBlocklist(published[i].dev) =>
            lastOp.op \in {"onMQTTConnected", "connectDevice", "stop"}

\* a traffic event of a connected, untracked endpoint has published nothing
C4_Witness ==
    /\ lastOp.op = "onZigbeeEvent"
    /\ lastOp.dev \in connected
    /\ ~inPasslistOrNotInBlocklist(lastOp.dev)
    /\ published = <<>>

\* C5: an endpoint that is not tracked has no active timer and no pending
\* timer-triggered probe, in every reachable state.
C5_UntrackedNoTimer ==
    \A d \in Dev :
        ~inPasslistOrNotInBlocklist(d) =>
            /\ ActiveTimers(d) = 0
            /\ ~hasOwnProperty(timers, d)
            /\ probes[d].timer = 0

\* connectDevice of an untracked endpoint has run to its end, after a startup
\* probe, and the endpoint has no timer
C5_Witness ==
    /\ lastOp.op = "connectDevice"
    /\ ~inPasslistOrNotInBlocklist(lastOp.dev)
    /\ ActiveTimers(lastOp.dev) = 0

\* the publications of the log with the payload p
WithPayload(log, p) == SelectSeq(log, LAMBDA e : e.payload = p)

\* C6, as claimed: stop() publishes 'offline' for every known endpoint, also
\* for one already recorded offline.
C6_StopPublishesOfflineForAll ==
    [][lastOp'.op = "stop" =>
          \A d \in Dev : known[d] => Len(WithPayload(Of(published', d), "offline")) = 1]_vars

\* C6, amended: stop() calls setAvailability(d, offline) without force for
\* every known endpoint: it publishes 'offline' once for each known endpoint
\* recorded online or not recorded, and nothing for one already recorded
\* offline; it leaves every known endpoint recorded offline.
C6_StopPublishesOfflineOnChange ==
    [][lastOp'.op = "stop" =>
          \A d \in Dev :
              /\ Of(published', d) =
                    IF known[d] /\ Recorded(state, d) # "offline"
                    THEN << [dev |-> d, payload |-> "offline", force |-> FALSE] >>
                    ELSE <<>>
              /\ known[d] => Recorded(state', d) = "offline"]_vars

\* stop() has found both endpoints known, one of them recorded offline, and
\* has published for the other one alone
C6_Witness ==
    /\ lastOp.op = "stop"
    /\ \A d \in Dev : known[d]
    /\ Len(published) = 1

\* C7: once stop() has run, no step arms a timer (the number of active timers
\* of an endpoint never grows) and no step publishes 'online'.
C7_QuietAfterStop ==
    [][stopped =>
          /\ \A d \in Dev : ActiveTimersIn(timers', leaked', d) <= ActiveTimers(d)
          /\ WithPayload(published', "online") = <<>>]_vars

\* The setAvailability calls cs for d made one after the other from the
\* recorded states st: the number of calls that bring an endpoint recorded
\* offline online (reconnects), and of calls that bring an endpoint without
\* recorded state online (firsts).
RECURSIVE Replay(_, _, _)
Replay(st, cs, d) ==
    IF cs = <<>>
    THEN [reconnects |-> 0, firsts |-> 0]
    ELSE LET c == Head(cs)
             rest == Replay(Put(st, c.dev, c.available), Tail(cs), d)
             mine == c.dev = d /\ c.available
         IN  [reconnects |-> rest.reconnects
                  + (IF mine /\ Recorded(st, d) = "offline" THEN 1 ELSE 0),
              firsts |-> rest.firsts
                  + (IF mine /\ Recorded(st, d) = "unset" THEN 1 ELSE 0)]

\* C8: setAvailability(d, online) on an endpoint recorded offline publishes
\* 'online' and calls refreshState once; setAvailability calls refreshState
\* neither with the value offline nor for an endpoint recorded online (only,
\* besides, and at most once, for an endpoint without recorded state).
C8_RefreshOnReconnect ==
    [][\A d \in Dev :
          LET r == Replay(state, calls', d)
              n == Len(SelectSeq(Of(refreshed', d),
                                 LAMBDA e : e.site = "publishAvailability"))
          IN  /\ r.reconnects <= n
              /\ n <= r.reconnects + r.firsts
              /\ r.reconnects <= Len(WithPayload(Of(published', d), "online"))]_vars

\* a timer probe has found an endpoint recorded offline reachable again: one
\* publication, one refreshState call
C8_Witness ==
    /\ lastOp.op = "handleIntervalPingable"
    /\ lastOp.arg = 1
    /\ published = << [dev |-> lastOp.dev, payload |-> "online", force |-> FALSE] >>
    /\ refreshed = << [dev |-> lastOp.dev, site |-> "publishAvailability"] >>

\* C9: a tick of the interval of a resolvable endpoint that has been seen
\* records the endpoint offline iff now - lastSeen > 90,000,000 ms (25 hours);
\* at 25 hours or less, and for an endpoint never seen, the tick changes no
\* recorded state and publishes nothing.
C9_OfflineAfter25Hours ==
    [][lastOp'.op = "handleIntervalNotPingable" =>
          LET d == lastOp'.dev
              seen == lastOp'.arg # 0
              elapsed == lastOp'.now - lastOp'.arg
          IN  IF known[d] /\ seen /\ elapsed > 90000000
              THEN /\ Recorded(state', d) = "offline"
                   /\ published' = ExpectedPublications(state,
                          << [dev |-> d, available |-> FALSE, force |-> FALSE] >>)
              ELSE /\ state' = state
                   /\ published' = <<>>
                   /\ calls' = <<>>]_vars

\* a tick 25 hours and 1 ms after the endpoint was last seen has published
\* 'offline'
C9_Witness ==
    /\ lastOp.op = "handleIntervalNotPingable"
    /\ lastOp.arg # 0
    /\ lastOp.now - lastOp.arg = 90000001
    /\ published = << [dev |-> lastOp.dev, payload |-> "offline", force |-> FALSE] >>

\* C10: the settling of a timer-triggered probe, successful or not, leaves
\* the timeout of the endpoint armed; and before stop() a tracked, pingable,
\* resolvable endpoint that has been connected has its timer armed or a probe
\* pending.
C10_ContinuousSupervision ==
    /\ lastOp.op = "handleIntervalPingable" =>
          /\ hasOwnProperty(timers, lastOp.dev)
          /\ timers[lastOp.dev] = [kind |-> "timeout", active |-> TRUE]
    /\ \A d \in Dev :
          (/\ ~stopped
           /\ d \in connected
           /\ known[d]
           /\ inPasslistOrNotInBlocklist(d)
           /\ isPingable(d))
              => \/ hasOwnProperty(timers, d) /\ timers[d].active
                 \/ PendingProbes(d) > 0

\* a timer probe of a tracked pingable endpoint has failed before stop()
C10_Witness ==
    /\ lastOp.op = "handleIntervalPingable"
    /\ lastOp.arg = 0
    /\ ~stopped
    /\ known[lastOp.dev]
    /\ isPingable(lastOp.dev)
    /\ Recorded(state, lastOp.dev) = "offline"

\* C11: inPasslistOrNotInBlocklist(d) returns what the reference predicate
\* says, for all lists: with a passlist that is not empty, true iff the
\* address or the name of d is in the passlist (the blocklist is not asked);
\* with an empty passlist, false iff the address or the name is in the
\* blocklist.
C11_IsTracked ==
    lastOp.op = "inPasslistOrNotInBlocklist" =>
        LET d == lastOp.dev
            keys == {d, friendlyName(d)}
        IN  (lastOp.arg = 1) <=>
                IF passlist # {}
                THEN keys \cap passlist # {}
                ELSE keys \cap blocklist = {}

\* a device that is in both lists by its address is tracked
C11_Witness ==
    /\ lastOp.op = "inPasslistOrNotInBlocklist"
    /\ lastOp.dev \in passlist
    /\ lastOp.dev \in blocklist
    /\ lastOp.arg = 1

\* the refreshState calls of the log that onZigbeeEvent makes itself
AnnounceRefreshes(log) == SelectSeq(log, LAMBDA e : e.site = "onZigbeeEvent")

\* C12: a traffic event of a tracked endpoint makes the announce-triggered
\* refreshState call iff the event is a deviceAnnounce, the endpoint was
\* recorded online before the event and the endpoint is no IKEA TRADFRI
\* device; an event calls refreshState at most once.
C12_AnnounceRefresh ==
    [][(lastOp'.op = "onZigbeeEvent" /\ inPasslistOrNotInBlocklist(lastOp'.dev)) =>
          LET d == lastOp'.dev
          IN  /\ (AnnounceRefreshes(refreshed') # <<>>) <=>
                    /\ lastOp'.arg = 1
                    /\ Recorded(state, d) = "online"
                    /\ ~isIkeaTradfriDevice(d)
              /\ Len(refreshed') <= 1]_vars

\* connectDevice(d) has made its startup probe in the step
StartupProbeStarted(d) == probes'[d].startup = probes[d].startup + 1

\* C13, as claimed: connectDevice(d) makes the startup probe iff d is pingable
\* and its resolved availability_ping_device_on_startup setting is true; a
\* device that is not pingable is never probed at connect.
C13_StartupProbeOnlyIfPingable ==
    [][lastOp'.op = "onMQTTConnected" =>
          \A d \in Dev : known[d] =>
              LET setting == lastOp'.getDevice[d].availability_ping_device_on_startup
                  resolved == IF setting = "absent" THEN isPingable(d)
                              ELSE setting = "true"
              IN  StartupProbeStarted(d) <=> (isPingable(d) /\ resolved)]_vars

\* C13, amended: connectDevice(d) makes the startup probe iff the
\* availability_ping_device_on_startup setting of d is true, or is absent and
\* d is pingable: the setting of the device replaces the classification, so
\* a device that is not pingable is probed at connect when its setting is
\* true.
C13_StartupProbeBySetting ==
    [][lastOp'.op = "onMQTTConnected" =>
          \A d \in Dev : known[d] =>
              LET setting == lastOp'.getDevice[d].availability_ping_device_on_startup
              IN  StartupProbeStarted(d) <=>
                      \/ setting = "true"
                      \/ setting = "absent" /\ isPingable(d)]_vars

\* onMQTTConnected has started the startup probe of a device that is not
\* pingable and whose setting is true
C13_Witness ==
    /\ lastOp.op = "onMQTTConnected"
    /\ \E d \in Dev :
          /\ ~isPingable(d)
          /\ lastOp.getDevice[d].availability_ping_device_on_startup = "true"
          /\ probes[d].startup > 0

\* C14, as claimed: after a scheduled callback (the expiry of the timeout of
\* a pingable endpoint, or a tick of the interval of one that is not) has
\* found its endpoint unresolvable, no timer of that endpoint is active and
\* its timer handle and its recorded state are dropped.
C14_UnresolvableStopsScheduling ==
    (lastOp.op \in {"timeout", "handleIntervalNotPingable"} /\ ~known[lastOp.dev]) =>
        /\ ActiveTimers(lastOp.dev) = 0
        /\ ~hasOwnProperty(timers, lastOp.dev)
        /\ ~hasOwnProperty(state, lastOp.dev)

\* the refreshState calls of the log that publishAvailability makes for d
StateRefreshes(log, d) ==
    SelectSeq(log, LAMBDA e : e.dev = d /\ e.site = "publishAvailability")

\* C15: setAvailability records the state before it calls refreshState.  When
\* a step has called refreshState for d from setAvailability(d, true), the
\* reads are pending, and the next step calls setAvailability(d, true)
\* without force, then d is recorded online already, the second call calls no
\* refreshState and publishes nothing; the first step has called refreshState
\* once for d and, when it called setAvailability once for d, has published
\* once.
C15_ReentryIsQuiet ==
    [][\A d \in Dev :
          LET nested == Of(calls', d)
          IN  (/\ StateRefreshes(refreshed, d) # <<>>
               /\ d \in refreshing
               /\ nested = << [dev |-> d, available |-> TRUE, force |-> FALSE] >>)
              => /\ Recorded(state, d) = "online"
                 /\ Of(published', d) = <<>>
                 /\ StateRefreshes(refreshed', d) = <<>>
                 /\ Recorded(state', d) = "online"
                 /\ Len(StateRefreshes(refreshed, d)) = 1
                 /\ Len(Of(calls, d)) = 1 => Len(Of(published, d)) = 1]_vars

\* a message of an endpoint has come in while reads of refreshState were
\* pending for it: setAvailability(d, true) was called and stayed silent
C15_Witness ==
    /\ lastOp.op = "onZigbeeEvent"
    /\ lastOp.arg = 0
    /\ lastOp.dev \in refreshing
    /\ calls = << [dev |-> lastOp.dev, available |-> TRUE, force |-> FALSE] >>
    /\ published = <<>>
    /\ refreshed = <<>>

\* C16: the end of the reads of refreshState, answered or failed, changes no
\* recorded state, no timer and no pending probe and publishes nothing; and
\* every step in which setAvailability calls refreshState for d publishes
\* 'online' for d in that same step and leaves d recorded online, whether the
\* call returns early, or its reads are answered or fail later.
C16_RefreshOutcomeIsInert ==
    [][/\ lastOp'.op = "refreshState" =>
              /\ UNCHANGED <<state, timers, leaked, probes, retained>>
              /\ published' = <<>>
              /\ calls' = <<>>
       /\ \A d \in Dev : StateRefreshes(refreshed', d) # <<>> =>
              /\ WithPayload(Of(published', d), "online") # <<>>
              /\ Recorded(state', d) = "online"
              /\ retained'[d] = "online"]_vars

\* a read of refreshState has failed for an endpoint recorded online whose
\* 'online' publication the broker holds
C16_Witness ==
    /\ lastOp.op = "refreshState"
    /\ lastOp.arg = 0
    /\ Recorded(state, lastOp.dev) = "online"
    /\ hasOwnProperty(retained, lastOp.dev)
    /\ retained[lastOp.dev] = "online"

\* C17: a traffic event of an endpoint the lists exclude, deviceAnnounce
\* included, changes no recorded state, no timer and no pending probe,
\* publishes nothing and calls neither setAvailability nor refreshState.
C17_UntrackedTrafficIsNoOp ==
    [][(lastOp'.op = "onZigbeeEvent" /\ ~inPasslistOrNotInBlocklist(lastOp'.dev)) =>
          /\ UNCHANGED <<state, timers, leaked, probes, retained, refreshing>>
          /\ published' = <<>>
          /\ refreshed' = <<>>
          /\ calls' = <<>>]_vars

\* a deviceAnnounce of an excluded pingable endpoint that is no IKEA TRADFRI
\* device and is recorded online has come in
C17_Witness ==
    /\ lastOp.op = "onZigbeeEvent"
    /\ lastOp.arg = 1
    /\ ~inPasslistOrNotInBlocklist(lastOp.dev)
    /\ isPingable(lastOp.dev)
    /\ ~isIkeaTradfriDevice(lastOp.dev)
    /\ Recorded(state, lastOp.dev) = "online"

C19_AtMostOneProbe == \A d \in Dev : PendingProbes(d) <= 1

\* C20: for every endpoint with a recorded state the retained message, the
\* endpoint's most recent publication, carries the recorded state; and every
\* step that changes the recorded state of an endpoint publishes the new
\* state as the last publication of the endpoint in that step.
C20_RetainedIsRecorded ==
    /\ [](\A d \in DOMAIN state :
              hasOwnProperty(retained, d) /\ retained[d] = Recorded(state, d))
    /\ [][\A d \in Dev : Recorded(state', d) # Recorded(state, d) =>
              LET log == Of(published', d)
              IN  log # <<>> /\ log[Len(log)].payload = Recorded(state', d)]_vars

\* stop() has recorded an endpoint offline that a startup ping had found
\* reachable, and the retained message says offline
C20_Witness ==
    /\ lastOp.op = "stop"
    /\ \E d \in DOMAIN state :
          /\ published # <<>>
          /\ \E i \in DOMAIN published : published[i].dev = d
          /\ retained[d] = "offline"
          /\ Recorded(state, d) = "offline"

====
